---------------------------- MODULE Spec2Model ----------------------------
(***************************************************************************)
(* The alert ledger of the PubMed citation alert system (src/database.py): *)
(* one SQLite table `alerts` and the four operations on it, init_db,       *)
(* insert_alert, get_pending_alerts and mark_as_notified.  Every operation *)
(* opens its own connection, runs its statements and closes it, so one     *)
(* operation is one step.  A single writer is modelled: steps do not       *)
(* interleave.                                                             *)
(***************************************************************************)
EXTENDS Integers, Sequences, FiniteSets

(***************************************************************************)
(* Bounds of the model.                                                    *)
(***************************************************************************)
\* most rows the table holds before insert_alert is no longer offered a new pair
MaxRows == 2
\* most runs of the orchestrator
MaxRuns == 2

(***************************************************************************)
(* Inputs the callers are given.                                           *)
(***************************************************************************)
PMIDS == {"31000001", "31000002"}
PERIODS == {"2025/01/01 to 2025/01/31", "2025/02/01 to 2025/02/28"}
\* citation counts handed to insert_alert
CITATIONS == {10, 20}
\* descriptive metadata of an article: two variants that differ in every field
METADATA ==
    { [doi |-> "10.1000/a", title |-> "Title A", journal |-> "Ophthalmology",
       published_date |-> "2024-11-03"],
      [doi |-> "10.1000/b", title |-> "Title B", journal |-> "Retina",
       published_date |-> "2024-12-19"] }
\* ids a caller may hand to mark_as_notified, stored or not
ALERT_IDS == 1..MaxRows
\* Python's None, for an argument or a return value that is absent
None == "None"

(***************************************************************************)
(* State: the database file at config.DB_PATH and the last call.           *)
(*   schema           TRUE once the table `alerts` exists                  *)
(*   alerts           the rows of the table, in rowid order                *)
(*   sqlite_sequence  the largest id AUTOINCREMENT has handed out          *)
(*   call             the operation of the last step and its arguments     *)
(*   ret              what that operation returned, or that it raised      *)
(***************************************************************************)
VARIABLES schema, alerts, sqlite_sequence, call, ret

(***************************************************************************)
(*   run   the orchestrator (src/main.py): where the current run stands,   *)
(*         its arguments and local variables, and what the runs so far     *)
(*         have delivered                                                  *)
(*   gem   one call of summarize_abstract (src/gemini_summarizer.py)       *)
(***************************************************************************)
VARIABLES run, gem

vars == <<schema, alerts, sqlite_sequence, call, ret, run, gem>>

\* a call record; the arguments an operation does not take are None / {}
Call(op, pmid, meta, citation_increase, detected_month, alert_ids) ==
    [op |-> op, pmid |-> pmid, doi |-> meta.doi, title |-> meta.title,
     journal |-> meta.journal, published_date |-> meta.published_date,
     citation_increase |-> citation_increase, detected_month |-> detected_month,
     alert_ids |-> alert_ids]

NoMeta == [doi |-> None, title |-> None, journal |-> None, published_date |-> None]

\* a result record: `raised` for an exception, `value` for a bool result,
\* `rows` for a list result
Returned(value, rows) == [raised |-> FALSE, value |-> value, rows |-> rows]
OperationalError == [raised |-> TRUE, value |-> FALSE, rows |-> <<>>]

\* no run has started: the orchestrator's record before the first StartRun
NoRun ==
    [pc |-> "idle", runs |-> 0, dry_run |-> FALSE, period |-> None,
     atStart |-> <<>>, articles |-> <<>>, idx |-> 0,
     total_citations |-> [available |-> FALSE, count |-> 0],
     pending |-> <<>>, sent |-> <<>>, success |-> "none", marks |-> 0,
     sends |-> 0, end |-> "none",
     delivered |-> [i \in ALERT_IDS |-> 0], unmarked |-> [i \in ALERT_IDS |-> 0]]

\* summarize_abstract has not been called
NoSummarize ==
    [pc |-> "idle", abstract |-> None, key |-> FALSE, attempt |-> 0,
     calls |-> 0, waits |-> <<>>, outcomes |-> <<>>, summary |-> None]

(***************************************************************************)
(* CREATE TABLE IF NOT EXISTS alerts (...): creates the table when it is   *)
(* missing and leaves an existing table and its rows alone.                *)
(***************************************************************************)
\* a plausible slip: DROP TABLE before CREATE TABLE, so every run starts empty
CREATE_TABLE_SQL_DropFirst ==
    /\ schema' = TRUE
    /\ alerts' = <<>>
    /\ sqlite_sequence' = 0

CREATE_TABLE_SQL ==
    /\ schema' = TRUE
    /\ UNCHANGED <<alerts, sqlite_sequence>>

\* a plausible slip: CREATE TABLE without IF NOT EXISTS, which raises on an
\* existing table
init_db_NoIfNotExists ==
    /\ call' = Call("init_db", None, NoMeta, 0, None, {})
    /\ IF schema
         THEN /\ ret' = OperationalError
              /\ UNCHANGED <<schema, alerts, sqlite_sequence>>
         ELSE /\ CREATE_TABLE_SQL
              /\ ret' = Returned(FALSE, <<>>)

init_db ==
    /\ CREATE_TABLE_SQL
    /\ call' = Call("init_db", None, NoMeta, 0, None, {})
    /\ ret' = Returned(FALSE, <<>>)

(***************************************************************************)
(* SELECT id FROM alerts WHERE pmid = ? AND detected_month = ? ... fetchone *)
(***************************************************************************)
\* a plausible slip: the duplicate check looks at pending rows only
existing_PendingOnly(pmid, detected_month) ==
    \E i \in DOMAIN alerts :
        /\ alerts[i].pmid = pmid
        /\ alerts[i].detected_month = detected_month
        /\ alerts[i].notified = 0

\* a plausible slip: the duplicate check forgets the period
existing_PmidOnly(pmid, detected_month) ==
    \E i \in DOMAIN alerts : alerts[i].pmid = pmid

existing(pmid, detected_month) ==
    \E i \in DOMAIN alerts :
        /\ alerts[i].pmid = pmid
        /\ alerts[i].detected_month = detected_month

\* the row INSERT INTO alerts (...) VALUES (?, ?, ?, ?, ?, ?, ?, 0) stores;
\* id is INTEGER PRIMARY KEY AUTOINCREMENT
NewRow(pmid, meta, citation_increase, detected_month) ==
    [id |-> sqlite_sequence + 1, pmid |-> pmid, doi |-> meta.doi,
     title |-> meta.title, journal |-> meta.journal,
     published_date |-> meta.published_date,
     citation_increase |-> citation_increase,
     detected_month |-> detected_month, notified |-> 0]

\* a plausible slip: an upsert, which rewrites the stored row of a duplicate
\* pair as a fresh pending row
insert_alert_Upsert(pmid, meta, citation_increase, detected_month) ==
    /\ call' = Call("insert_alert", pmid, meta, citation_increase, detected_month, {})
    /\ IF ~schema
         THEN /\ ret' = OperationalError
              /\ UNCHANGED <<schema, alerts, sqlite_sequence>>
         ELSE IF existing(pmid, detected_month)
           THEN /\ alerts' =
                     [i \in DOMAIN alerts |->
                        IF /\ alerts[i].pmid = pmid
                           /\ alerts[i].detected_month = detected_month
                          THEN [NewRow(pmid, meta, citation_increase, detected_month)
                                  EXCEPT !.id = alerts[i].id]
                          ELSE alerts[i]]
                /\ ret' = Returned(FALSE, <<>>)
                /\ UNCHANGED <<schema, sqlite_sequence>>
           ELSE /\ Len(alerts) < MaxRows
                /\ alerts' = Append(alerts,
                                NewRow(pmid, meta, citation_increase, detected_month))
                /\ sqlite_sequence' = sqlite_sequence + 1
                /\ ret' = Returned(TRUE, <<>>)
                /\ UNCHANGED schema

insert_alert(pmid, meta, citation_increase, detected_month) ==
    /\ call' = Call("insert_alert", pmid, meta, citation_increase, detected_month, {})
    /\ IF ~schema
         THEN \* no such table: the SELECT raises
              /\ ret' = OperationalError
              /\ UNCHANGED <<schema, alerts, sqlite_sequence>>
         ELSE IF existing(pmid, detected_month)
           THEN /\ ret' = Returned(FALSE, <<>>)
                /\ UNCHANGED <<schema, alerts, sqlite_sequence>>
           ELSE /\ Len(alerts) < MaxRows
                /\ alerts' = Append(alerts,
                                NewRow(pmid, meta, citation_increase, detected_month))
                /\ sqlite_sequence' = sqlite_sequence + 1
                /\ ret' = Returned(TRUE, <<>>)
                /\ UNCHANGED schema

(***************************************************************************)
(* SELECT ... FROM alerts WHERE detected_month = ? AND notified = 0        *)
(* ORDER BY citation_increase DESC.                                        *)
(***************************************************************************)
\* a plausible slip: the WHERE clause forgets notified = 0
Where_AnyNotified(detected_month) ==
    SelectSeq(alerts, LAMBDA r : r.detected_month = detected_month)

\* the rows the WHERE clause keeps, in rowid order
Where(detected_month) ==
    SelectSeq(alerts, LAMBDA r : r.detected_month = detected_month /\ r.notified = 0)

\* every arrangement of the rows of a sequence
Arrangements(rows) ==
    LET n == Len(rows)
        perms == { p \in [1..n -> 1..n] : \A i, j \in 1..n : p[i] = p[j] => i = j }
    IN  { [i \in 1..n |-> rows[p[i]]] : p \in perms }

\* a plausible slip: ORDER BY citation_increase without DESC
OrderByCitationAsc(rows) ==
    { s \in Arrangements(rows) :
        \A i \in 1..(Len(s) - 1) :
            s[i].citation_increase <= s[i + 1].citation_increase }

\* ORDER BY citation_increase DESC has no second key: SQLite leaves the order
\* of rows with equal keys undefined, so every descending arrangement is a
\* result the engine may give
OrderByCitationDesc(rows) ==
    { s \in Arrangements(rows) :
        \A i \in 1..(Len(s) - 1) :
            s[i].citation_increase >= s[i + 1].citation_increase }

get_pending_alerts(detected_month) ==
    /\ call' = Call("get_pending_alerts", None, NoMeta, 0, detected_month, {})
    /\ IF ~schema
         THEN ret' = OperationalError
         ELSE \E rows \in OrderByCitationDesc(Where(detected_month)) :
                  ret' = Returned(FALSE, rows)
    /\ UNCHANGED <<schema, alerts, sqlite_sequence>>

(***************************************************************************)
(* UPDATE alerts SET notified = 1 WHERE id IN (...)                        *)
(***************************************************************************)
\* a plausible slip: the UPDATE loses its WHERE clause
UpdateNotified_AllRows(alert_ids) ==
    [i \in DOMAIN alerts |-> [alerts[i] EXCEPT !.notified = 1]]

\* a plausible slip: SET notified = (id IN (...)), which clears the other rows
UpdateNotified_Assign(alert_ids) ==
    [i \in DOMAIN alerts |->
        [alerts[i] EXCEPT !.notified = IF alerts[i].id \in alert_ids THEN 1 ELSE 0]]

\* a plausible slip: only the first placeholder is bound, so one id is updated
UpdateNotified_FirstOnly(alert_ids) ==
    [i \in DOMAIN alerts |->
        IF alerts[i].id \in alert_ids /\ \A k \in alert_ids : alerts[i].id <= k
          THEN [alerts[i] EXCEPT !.notified = 1]
          ELSE alerts[i]]

UpdateNotified(alert_ids) ==
    [i \in DOMAIN alerts |->
        IF alerts[i].id \in alert_ids
          THEN [alerts[i] EXCEPT !.notified = 1]
          ELSE alerts[i]]

mark_as_notified(alert_ids) ==
    /\ call' = Call("mark_as_notified", None, NoMeta, 0, None, alert_ids)
    /\ IF alert_ids = {}
         THEN \* early return, no connection is opened
              /\ ret' = Returned(FALSE, <<>>)
              /\ UNCHANGED <<schema, alerts, sqlite_sequence>>
         ELSE IF ~schema
           THEN /\ ret' = OperationalError
                /\ UNCHANGED <<schema, alerts, sqlite_sequence>>
           ELSE /\ alerts' = UpdateNotified(alert_ids)
                /\ ret' = Returned(FALSE, <<>>)
                /\ UNCHANGED <<schema, sqlite_sequence>>

(***************************************************************************)
(* The ledger under a single writer.                                       *)
(***************************************************************************)
\* a new database file, before the first init_db
NewDatabase ==
    /\ schema = FALSE
    /\ alerts = <<>>
    /\ sqlite_sequence = 0
    /\ call = Call("none", None, NoMeta, 0, None, {})
    /\ ret = Returned(FALSE, <<>>)

Init ==
    /\ NewDatabase
    /\ run = NoRun
    /\ gem = NoSummarize

Next ==
    \/ init_db /\ UNCHANGED <<run, gem>>
    \/ \E pmid \in PMIDS, meta \in METADATA, c \in CITATIONS, p \in PERIODS :
           insert_alert(pmid, meta, c, p) /\ UNCHANGED <<run, gem>>
    \/ \E p \in PERIODS : get_pending_alerts(p) /\ UNCHANGED <<run, gem>>
    \/ \E ids \in SUBSET ALERT_IDS : mark_as_notified(ids) /\ UNCHANGED <<run, gem>>

Spec == Init /\ [][Next]_vars

(***************************************************************************)
(* The orchestrator, run() of src/main.py.  Runs are sequential: a run     *)
(* starts only when none is in progress.  Each call of a collaborator or   *)
(* of the ledger is one step.                                              *)
(***************************************************************************)
\* threshold = 10
threshold == 10

\* what fetch_article_details returns for a PMID: its metadata, with or
\* without a DOI
ArticleOf(pmid, meta, has_doi) ==
    [pmid |-> pmid, doi |-> IF has_doi THEN meta.doi ELSE None,
     title |-> meta.title, journal |-> meta.journal,
     published_date |-> meta.published_date]

ARTICLES ==
    { ArticleOf("31000001", CHOOSE m \in METADATA : m.title = "Title A", d) :
        d \in BOOLEAN }
    \cup
    { ArticleOf("31000002", CHOOSE m \in METADATA : m.title = "Title B", d) :
        d \in BOOLEAN }

\* the article lists a fetch may return: all_pmids holds no PMID twice
ARTICLE_LISTS ==
    { <<>> } \cup { <<a>> : a \in ARTICLES }
    \cup { ab \in ARTICLES \X ARTICLES : ab[1].pmid # ab[2].pmid }

\* what the citation index answers for a DOI: None, or the number of citations
Unavailable == [available |-> FALSE, count |-> 0]
CITATION_ANSWERS ==
    { Unavailable } \cup { [available |-> TRUE, count |-> c] : c \in {9, 10, 20} }

\* the articles of a list that would get a new row under a period
NewPairs(articles, period) ==
    { i \in DOMAIN articles :
        \A k \in DOMAIN alerts :
            ~ ( /\ alerts[k].pmid = articles[i].pmid
                /\ alerts[k].detected_month = period ) }

\* the run ends: its locals are gone, what it did is kept
EndRun(r, how) ==
    [r EXCEPT !.pc = "idle", !.end = how, !.articles = <<>>, !.idx = 0,
              !.total_citations = Unavailable]

\* run(start_date, end_date, article_types, dry_run) is entered;
\* detected_period = f"{start_date or 'base'} to {end_date or 'base'}"
StartRun(dry_run, period) ==
    /\ run.pc = "idle"
    /\ run.runs < MaxRuns
    /\ run' = [run EXCEPT !.pc = "init_db", !.runs = @ + 1, !.dry_run = dry_run,
                          !.period = period, !.atStart = alerts,
                          !.articles = <<>>, !.idx = 0,
                          !.total_citations = Unavailable,
                          !.pending = <<>>, !.sent = <<>>, !.success = "none",
                          !.marks = 0, !.sends = 0, !.end = "none"]
    /\ UNCHANGED <<schema, alerts, sqlite_sequence, call, ret, gem>>

\* init_db()
RunInitDb ==
    /\ run.pc = "init_db"
    /\ init_db
    /\ run' = [run EXCEPT !.pc = "search"]
    /\ UNCHANGED gem

\* steps 2-3: config.DEFAULT_FIELDS is in the MeSH dictionary, so there is a
\* query; search_pmids returns PMIDs or, on no hit or a failed request, []
RunSearch ==
    /\ run.pc = "search"
    /\ \E found \in BOOLEAN :
          run' = IF found THEN [run EXCEPT !.pc = "fetch"]
                          ELSE EndRun(run, "no_pmids")
    /\ UNCHANGED <<schema, alerts, sqlite_sequence, call, ret, gem>>

\* step 4: articles = fetch_article_details(all_pmids), possibly []
RunFetch ==
    /\ run.pc = "fetch"
    /\ \E articles \in ARTICLE_LISTS :
          /\ Len(alerts) + Cardinality(NewPairs(articles, run.period)) <= MaxRows
          /\ run' = [run EXCEPT !.articles = articles, !.idx = 1,
                                !.pc = IF articles = <<>> THEN "pending" ELSE "loop"]
    /\ UNCHANGED <<schema, alerts, sqlite_sequence, call, ret, gem>>

\* get_total_citations(doi): None without a DOI, else what the index answers
get_total_citations(doi, answer) ==
    IF doi = None THEN Unavailable ELSE answer

\* a plausible slip: the comparison with the threshold is lost
Qualifies_NoThreshold(doi, total_citations) ==
    /\ doi # None
    /\ total_citations.available

\* the conditions of steps 5-6 under which the article is recorded
Qualifies(doi, total_citations) ==
    /\ doi # None
    /\ total_citations.available
    /\ total_citations.count >= threshold

\* steps 5-6, one iteration of the loop over articles
RunCheckArticle ==
    /\ run.pc = "loop"
    /\ LET article == run.articles[run.idx]
           after(r) == IF r.idx = Len(r.articles)
                         THEN [r EXCEPT !.pc = "pending", !.idx = @ + 1]
                         ELSE [r EXCEPT !.idx = @ + 1]
       IN  \E answer \in CITATION_ANSWERS :
             LET total_citations == get_total_citations(article.doi, answer)
             IN  \* if not doi: continue -- the index is not asked
                 /\ article.doi = None => answer = Unavailable
                 /\ run' = after([run EXCEPT !.total_citations = total_citations])
                 /\ IF Qualifies(article.doi, total_citations)
                      THEN insert_alert(article.pmid,
                                        [doi |-> article.doi, title |-> article.title,
                                         journal |-> article.journal,
                                         published_date |-> article.published_date],
                                        total_citations.count, run.period)
                      ELSE UNCHANGED <<schema, alerts, sqlite_sequence, call, ret>>
    /\ UNCHANGED gem

\* step 7: pending = get_pending_alerts(detected_period); return when empty
RunGetPending ==
    /\ run.pc = "pending"
    /\ get_pending_alerts(run.period)
    /\ run' = IF ret'.rows = <<>>
                THEN EndRun([run EXCEPT !.pending = ret'.rows], "no_pending")
                ELSE [run EXCEPT !.pending = ret'.rows, !.pc = "summarize"]
    /\ UNCHANGED gem

\* step 8: a summary is attached to every pending record
RunSummarize ==
    /\ run.pc = "summarize"
    /\ run' = [run EXCEPT !.pc = "send"]
    /\ UNCHANGED <<schema, alerts, sqlite_sequence, call, ret, gem>>

\* the ids of a list of records: [a["id"] for a in pending]
alert_ids_of(pending) == { pending[i].id : i \in DOMAIN pending }

\* a plausible slip: the return after a failed send is lost
AfterSend_NoReturn(r, success) ==
    [r EXCEPT !.pc = "mark"]

\* if not success: return
AfterSend(r, success) ==
    IF success THEN [r EXCEPT !.pc = "mark"] ELSE EndRun(r, "send_failed")

\* step 10: send_alert_email(pending) unless dry_run; it returns True, or False
\* on missing credentials, a missing recipient or an SMTPException
RunSend ==
    /\ run.pc = "send"
    /\ IF run.dry_run
         THEN run' = [run EXCEPT !.pc = "mark"]
         ELSE \E success \in BOOLEAN :
                run' = AfterSend(
                         [run EXCEPT
                            !.sends = @ + 1,
                            !.sent = run.pending,
                            !.success = IF success THEN "ok" ELSE "failed",
                            !.delivered =
                               [i \in ALERT_IDS |->
                                  IF success /\ i \in alert_ids_of(run.pending)
                                    THEN @[i] + 1 ELSE @[i]]],
                         success)
    /\ UNCHANGED <<schema, alerts, sqlite_sequence, call, ret, gem>>

\* a plausible slip: the ids of every stored record are marked
mark_ids_AllRows(pending) == { alerts[i].id : i \in DOMAIN alerts }

\* alert_ids = [a["id"] for a in pending]
mark_ids(pending) == alert_ids_of(pending)

\* a plausible slip: the dry-run test before mark_as_notified is lost
marks_when_Always(dry_run) == TRUE

\* if not dry_run: mark_as_notified(alert_ids)
marks_when(dry_run) == ~dry_run

\* step 11
RunMark ==
    /\ run.pc = "mark"
    /\ IF marks_when(run.dry_run)
         THEN /\ mark_as_notified(mark_ids(run.pending))
              /\ run' = EndRun([run EXCEPT !.marks = @ + 1], "completed")
         ELSE /\ run' = EndRun(run, "completed")
              /\ UNCHANGED <<schema, alerts, sqlite_sequence, call, ret>>
    /\ UNCHANGED gem

\* a plausible slip: an aborted run restores the table it started with
AbortedLedger_Rollback ==
    /\ alerts' = run.atStart
    /\ UNCHANGED <<schema, sqlite_sequence, call, ret>>

\* what an aborted run leaves in the ledger: every committed write
AbortedLedger ==
    UNCHANGED <<schema, alerts, sqlite_sequence, call, ret>>

\* an unhandled exception in the step the run is about to take (a storage
\* error, malformed XML, a socket error in the send, ...): main() logs it and
\* exits 1; the step had no effect
RunAbort ==
    /\ run.pc # "idle"
    /\ run' = EndRun(
                [run EXCEPT
                   !.unmarked =
                      [i \in ALERT_IDS |->
                         IF /\ run.pc = "mark"
                            /\ run.success = "ok"
                            /\ i \in alert_ids_of(run.sent)
                           THEN @[i] + 1 ELSE @[i]]],
                "aborted")
    /\ AbortedLedger
    /\ UNCHANGED gem

NextRun ==
    \/ \E dry_run \in BOOLEAN, period \in PERIODS : StartRun(dry_run, period)
    \/ RunInitDb
    \/ RunSearch
    \/ RunFetch
    \/ RunCheckArticle
    \/ RunGetPending
    \/ RunSummarize
    \/ RunSend
    \/ RunMark
    \/ RunAbort

SpecRun == Init /\ [][NextRun]_vars

(***************************************************************************)
(* summarize_abstract of src/gemini_summarizer.py.  One call of the        *)
(* provider, with the handling of its outcome, is one step.  Waits are in  *)
(* whole seconds.                                                          *)
(***************************************************************************)
MAX_RETRIES == 3
RETRY_WAIT_SEC == 65

\* abstracts handed in: none, blank, or text
ABSTRACTS == { None, "   ", "Purpose: to evaluate ...", "Methods: a cohort ..." }

\* what one generate_content call can do: return a response whose text is the
\* summary, or raise (a response without text raises inside the try as well);
\* the message of the exception may hold "retry in <n>s"
PROVIDER_OUTCOMES ==
    { [ok |-> TRUE, text |-> t, has_hint |-> FALSE, hint |-> 0] :
        t \in {"summary one", "summary two"} }
    \cup { [ok |-> FALSE, text |-> None, has_hint |-> FALSE, hint |-> 0] }
    \cup { [ok |-> FALSE, text |-> None, has_hint |-> TRUE, hint |-> h] :
             h \in {7, 30} }

\* the placeholder strings
NoAbstractText == "(no abstract, cannot summarize)"
NoKeyText == "(Gemini API key not set, summary skipped)"
FailedText == "(summary by Gemini API failed)"

\* a plausible slip: the fallback or hint wait is doubled with every attempt
RetryWait_Doubled(outcome, attempt) ==
    LET base == IF outcome.has_hint THEN outcome.hint + 5 ELSE RETRY_WAIT_SEC
        pow[k \in 1..MAX_RETRIES] == IF k = 1 THEN 1 ELSE 2 * pow[k - 1]
    IN  base * pow[attempt]

\* wait_sec: RETRY_WAIT_SEC, or the seconds of "retry in <n>s" plus 5
RetryWait(outcome, attempt) ==
    IF outcome.has_hint THEN outcome.hint + 5 ELSE RETRY_WAIT_SEC

\* a plausible slip: range(1, MAX_RETRIES + 2)
LoopContinues_OffByOne(attempt) == attempt <= MAX_RETRIES

\* for attempt in range(1, MAX_RETRIES + 1): there is a next attempt
LoopContinues(attempt) == attempt < MAX_RETRIES

\* summarize_abstract(abstract) is entered, with or without GEMINI_API_KEY
SummarizeEnter(abstract, key) ==
    /\ gem.pc \in {"idle", "done"}
    /\ LET entered == [NoSummarize EXCEPT !.abstract = abstract, !.key = key]
       IN  gem' = IF abstract \in {None, "   "}
                    THEN [entered EXCEPT !.pc = "done", !.summary = NoAbstractText]
                    ELSE IF ~key
                      THEN [entered EXCEPT !.pc = "done", !.summary = NoKeyText]
                      ELSE [entered EXCEPT !.pc = "attempt", !.attempt = 1]
    /\ UNCHANGED <<schema, alerts, sqlite_sequence, call, ret, run>>

\* one iteration of the retry loop
SummarizeAttempt ==
    /\ gem.pc = "attempt"
    /\ \E outcome \in PROVIDER_OUTCOMES :
          LET called == [gem EXCEPT !.calls = @ + 1,
                                    !.outcomes = Append(@, outcome)]
          IN  gem' =
                IF outcome.ok
                  THEN [called EXCEPT !.pc = "done", !.summary = outcome.text]
                  ELSE IF gem.attempt < MAX_RETRIES
                    THEN \* sleep, then the next iteration if there is one
                         LET slept ==
                               [called EXCEPT
                                  !.waits =
                                     Append(@, [attempt |-> gem.attempt,
                                                has_hint |-> outcome.has_hint,
                                                hint |-> outcome.hint,
                                                wait |-> RetryWait(outcome,
                                                                   gem.attempt)])]
                         IN  IF LoopContinues(gem.attempt)
                               THEN [slept EXCEPT !.attempt = @ + 1]
                               ELSE [slept EXCEPT !.pc = "done",
                                                  !.summary = FailedText]
                    ELSE IF LoopContinues(gem.attempt)
                      THEN [called EXCEPT !.attempt = @ + 1]
                      ELSE [called EXCEPT !.pc = "done", !.summary = FailedText]
    /\ UNCHANGED <<schema, alerts, sqlite_sequence, call, ret, run>>

NextSummarize ==
    \/ \E abstract \in ABSTRACTS, key \in BOOLEAN : SummarizeEnter(abstract, key)
    \/ SummarizeAttempt

\* the function runs on once called: its loop is not held up forever
SpecSummarize == Init /\ [][NextSummarize]_vars /\ WF_vars(SummarizeAttempt)

(***************************************************************************)
(* Properties of the ledger.                                               *)
(***************************************************************************)
\* the positions of the rows stored for a (pmid, detected_month) pair
Stored(pmid, detected_month) ==
    { i \in DOMAIN alerts :
        alerts[i].pmid = pmid /\ alerts[i].detected_month = detected_month }

\* the elements of a sequence
Range(s) == { s[i] : i \in DOMAIN s }

\* the last step was a call of op that returned normally
Completed(op) == call.op = op /\ ~ret.raised

\* C1: under a single writer the ledger holds at most one record for each
\* (pmid, detected_month) pair, whatever calls were made.
C1_UniquePair ==
    \A pmid \in PMIDS, p \in PERIODS : Cardinality(Stored(pmid, p)) <= 1

\* C1 witness: a second insert of a pair whose record is already notified was
\* refused, with the table full.
C1_Witness ==
    /\ Completed("insert_alert")
    /\ ret.value = FALSE
    /\ Len(alerts) = MaxRows
    /\ \E i \in Stored(call.pmid, call.detected_month) : alerts[i].notified = 1

\* C2: insert_alert with a pair that already has a record returns False and
\* writes nothing: the table, every field of every row included, is unchanged.
C2_DuplicateInsertIsNoOp ==
    [][ ( /\ call'.op = "insert_alert"
          /\ Stored(call'.pmid, call'.detected_month) # {} )
        => ( /\ ~ret'.raised
             /\ ret'.value = FALSE
             /\ alerts' = alerts
             /\ sqlite_sequence' = sqlite_sequence ) ]_vars

\* C2 witness: a refused insert that carried another doi, title and citation
\* count than the stored, already notified record of its pair.
C2_Witness ==
    /\ Completed("insert_alert")
    /\ ret.value = FALSE
    /\ \E i \in Stored(call.pmid, call.detected_month) :
          /\ alerts[i].doi # call.doi
          /\ alerts[i].title # call.title
          /\ alerts[i].citation_increase # call.citation_increase
          /\ alerts[i].notified = 1

\* C3: insert_alert with a pair that has no record (the table existing)
\* returns True and adds exactly one record, with a fresh id, the given fields
\* and notified = 0, leaving the stored rows as they were; a record of the same
\* pmid under another period does not prevent it.
C3_NewPairIsInserted ==
    [][ ( /\ call'.op = "insert_alert"
          /\ schema
          /\ Stored(call'.pmid, call'.detected_month) = {} )
        => ( /\ ~ret'.raised
             /\ ret'.value = TRUE
             /\ Len(alerts') = Len(alerts) + 1
             /\ SubSeq(alerts', 1, Len(alerts)) = alerts
             /\ LET r == alerts'[Len(alerts')]
                IN  /\ r.pmid = call'.pmid
                    /\ r.doi = call'.doi
                    /\ r.title = call'.title
                    /\ r.journal = call'.journal
                    /\ r.published_date = call'.published_date
                    /\ r.citation_increase = call'.citation_increase
                    /\ r.detected_month = call'.detected_month
                    /\ r.notified = 0
                    /\ \A i \in DOMAIN alerts : alerts[i].id # r.id ) ]_vars

\* C3 witness: an insert returned True for a pmid that already had a record
\* under another period, so the pmid now has two records.
C3_Witness ==
    /\ Completed("insert_alert")
    /\ ret.value = TRUE
    /\ \E i, j \in DOMAIN alerts :
          /\ alerts[i].id # alerts[j].id
          /\ alerts[i].pmid = call.pmid
          /\ alerts[j].pmid = call.pmid
          /\ alerts[i].detected_month # alerts[j].detected_month

\* C4: get_pending_alerts(p) returns exactly the records of period p with
\* notified = 0, each once.
C4_PendingExactly ==
    Completed("get_pending_alerts") =>
        LET pending == { r \in Range(alerts) :
                           r.detected_month = call.detected_month /\ r.notified = 0 }
        IN  /\ Range(ret.rows) = pending
            /\ Len(ret.rows) = Cardinality(pending)

\* C4 witness: a listing that returned a pending record and left out a
\* notified record of the same period.
C4_Witness ==
    /\ Completed("get_pending_alerts")
    /\ Len(ret.rows) >= 1
    /\ \E i \in DOMAIN alerts :
          /\ alerts[i].detected_month = call.detected_month
          /\ alerts[i].notified = 1

\* C5: the sequence get_pending_alerts returns is in descending order of
\* citation count: no record is followed by one with a higher count.
C5_DescendingCitations ==
    Completed("get_pending_alerts") =>
        \A i \in 1..(Len(ret.rows) - 1) :
            ret.rows[i].citation_increase >= ret.rows[i + 1].citation_increase

\* C5 witness: a listing of two records with different counts, the higher one
\* inserted later and returned first.
C5_Witness ==
    /\ Completed("get_pending_alerts")
    /\ Len(ret.rows) = 2
    /\ ret.rows[1].citation_increase > ret.rows[2].citation_increase
    /\ ret.rows[1].id > ret.rows[2].id

C7_MarkFrame ==
    [][ call'.op = "mark_as_notified"
        => ( /\ Len(alerts') = Len(alerts)
             /\ \A i \in DOMAIN alerts :
                   IF alerts[i].id \in call'.alert_ids
                     THEN /\ alerts'[i].id = alerts[i].id
                          /\ alerts'[i].notified = 1
                     ELSE alerts'[i] = alerts[i]
             /\ call'.alert_ids = {}
                   => /\ alerts' = alerts
                      /\ schema' = schema
                      /\ sqlite_sequence' = sqlite_sequence ) ]_vars

\* C7 witness: a call that marked one record and left another, pending one
\* outside its ids.
C7_Witness ==
    /\ Completed("mark_as_notified")
    /\ \E i, j \in DOMAIN alerts :
          /\ alerts[i].id \in call.alert_ids
          /\ alerts[i].notified = 1
          /\ alerts[j].id \notin call.alert_ids
          /\ alerts[j].notified = 0

\* C8: the notified flag is monotone: no step takes a record from
\* notified = 1 back to 0.
C8_NotifiedMonotone ==
    [][ \A i \in DOMAIN alerts, j \in DOMAIN alerts' :
            (alerts'[j].id = alerts[i].id /\ alerts[i].notified = 1)
            => alerts'[j].notified = 1 ]_vars

\* C8 witness: mark_as_notified was called with ids that leave out a record
\* notified earlier.
C8_Witness ==
    /\ Completed("mark_as_notified")
    /\ call.alert_ids # {}
    /\ \E i \in DOMAIN alerts :
          /\ alerts[i].id \notin call.alert_ids
          /\ alerts[i].notified = 1

\* C9: init_db, insert_alert and get_pending_alerts leave the notified flag of
\* every stored record as it was.
C9_OnlyMarkChangesNotified ==
    [][ call'.op \in {"init_db", "insert_alert", "get_pending_alerts"}
        => \A i \in DOMAIN alerts, j \in DOMAIN alerts' :
              alerts'[j].id = alerts[i].id
              => alerts'[j].notified = alerts[i].notified ]_vars

\* C9 witness: insert_alert ran for a pair whose stored record is notified
\* while another record is pending.
C9_Witness ==
    /\ Completed("insert_alert")
    /\ \E i \in Stored(call.pmid, call.detected_month) : alerts[i].notified = 1
    /\ \E j \in DOMAIN alerts : alerts[j].notified = 0

\* C10: records are never deleted and keep their id: every stored record is
\* stored after every step, with the same id, pmid and detected_month.
C10_RecordsRetained ==
    [][ \A i \in DOMAIN alerts :
            \E j \in DOMAIN alerts' :
                /\ alerts'[j].id = alerts[i].id
                /\ alerts'[j].pmid = alerts[i].pmid
                /\ alerts'[j].detected_month = alerts[i].detected_month ]_vars

\* C10 witness: init_db ran again on a full table that holds a notified
\* record.
C10_Witness ==
    /\ Completed("init_db")
    /\ Len(alerts) = MaxRows
    /\ \E i \in DOMAIN alerts : alerts[i].notified = 1

\* the ids of the records of a listing
Ids(rows) == { rows[i].id : i \in DOMAIN rows }

\* get_pending_alerts(p), called now, can return a non-empty sequence
MayListSomething(p) == ENABLED (get_pending_alerts(p) /\ ret'.rows # <<>>)

\* C11: when get_pending_alerts(p) has returned a listing and mark_as_notified
\* is then called with the ids of all its records, a get_pending_alerts(p)
\* that follows can only return the empty sequence.
C11_MarkedListingIsEmpty ==
    [][ \A p \in PERIODS :
          ( /\ Completed("get_pending_alerts")
            /\ call.detected_month = p
            /\ call'.op = "mark_as_notified"
            /\ call'.alert_ids = Ids(ret.rows) )
          => ~(MayListSomething(p))' ]_vars

\* C11 witness: two records of one period with different counts were listed
\* and the call that followed marked exactly these two.
C11_Witness ==
    /\ Completed("mark_as_notified")
    /\ Cardinality(call.alert_ids) = 2
    /\ \E i, j \in DOMAIN alerts :
          /\ call.alert_ids = {alerts[i].id, alerts[j].id}
          /\ alerts[i].detected_month = alerts[j].detected_month
          /\ alerts[i].citation_increase > alerts[j].citation_increase
          /\ alerts[i].notified = 1
          /\ alerts[j].notified = 1

\* C15: init_db on an existing schema raises nothing and leaves every stored
\* record, the notified flags included, and the id sequence as they were.
C15_InitDbIdempotent ==
    [][ (call'.op = "init_db" /\ schema)
        => ( /\ ~ret'.raised
             /\ schema'
             /\ alerts' = alerts
             /\ sqlite_sequence' = sqlite_sequence ) ]_vars

\* C15 witness: init_db ran on a schema that already held a pending and a
\* notified record.
C15_Witness ==
    /\ Completed("init_db")
    /\ \E i, j \in DOMAIN alerts : alerts[i].notified = 1 /\ alerts[j].notified = 0

(***************************************************************************)
(* Properties of the orchestrator, under SpecRun.                          *)
(***************************************************************************)
\* the current run, or the last one, changed no notified flag: every record
\* it found keeps its flag and every record it inserted is pending
NoFlagChangedInRun ==
    \A i \in DOMAIN alerts :
        IF i \in DOMAIN run.atStart
          THEN alerts[i].notified = run.atStart[i].notified
          ELSE alerts[i].notified = 0

\* the step is an iteration of the loop of steps 5-6
LoopIteration == run.pc = "loop" /\ run'.idx = run.idx + 1

\* the step stores a new record
RowAdded == Len(alerts') > Len(alerts)

\* C12: when the delivery of a run returned failure, the run has changed no
\* notified flag when it ends: it did not call mark_as_notified and every
\* record of the failed digest is still pending.
C12_FailedDeliveryMarksNothing ==
    (run.pc = "idle" /\ run.success = "failed")
    => /\ run.marks = 0
       /\ NoFlagChangedInRun
       /\ \A k \in DOMAIN run.sent :
             \E i \in DOMAIN alerts :
                 alerts[i].id = run.sent[k].id /\ alerts[i].notified = 0

\* C12 witness: a run ended on a failed delivery of a record it had inserted,
\* with a record notified by an earlier run in the table.
C12_Witness ==
    /\ run.pc = "idle"
    /\ run.success = "failed"
    /\ run.end = "send_failed"
    /\ \E k \in DOMAIN run.sent : run.sent[k].id > Len(run.atStart)
    /\ \E i \in DOMAIN alerts : alerts[i].notified = 1

\* C13: a dry run never calls send_alert_email or mark_as_notified and
\* changes no notified flag, and its loop still inserts every qualifying
\* article that has no record yet, as a pending record.
C13_DryRunSkipsSendAndMark ==
    /\ [] ( (run.dry_run /\ run.runs >= 1)
            => /\ run.sends = 0
               /\ run.marks = 0
               /\ run.success = "none"
               /\ NoFlagChangedInRun )
    /\ [][ ( /\ run.dry_run
             /\ LoopIteration
             /\ run.articles[run.idx].doi # None
             /\ run'.total_citations.available
             /\ run'.total_citations.count >= threshold
             /\ Stored(run.articles[run.idx].pmid, run.period) = {} )
           => ( /\ Len(alerts') = Len(alerts) + 1
                /\ alerts'[Len(alerts')].pmid = run.articles[run.idx].pmid
                /\ alerts'[Len(alerts')].detected_month = run.period
                /\ alerts'[Len(alerts')].notified = 0 ) ]_vars

\* C13 witness: a dry run completed with a record it inserted in its digest,
\* still pending.
C13_Witness ==
    /\ run.pc = "idle"
    /\ run.dry_run
    /\ run.end = "completed"
    /\ \E i \in DOMAIN alerts :
          /\ i > Len(run.atStart)
          /\ alerts[i].notified = 0
          /\ alerts[i].id \in Ids(run.pending)

\* C14: a run calls mark_as_notified at most once, only after its delivery
\* returned success, with exactly the ids of the records it passed to the
\* delivery; so every notified record was in a delivered digest.
C14_MarkOnlyDelivered ==
    /\ [] (run.marks <= 1)
    /\ [][ ( \/ run'.marks = run.marks + 1
             \/ \E i \in DOMAIN alerts :
                   \E j \in DOMAIN alerts' :
                       /\ alerts'[j].id = alerts[i].id
                       /\ alerts'[j].notified # alerts[i].notified )
           => ( /\ run.pc = "mark"
                /\ ~run.dry_run
                /\ run.sends = 1
                /\ run.success = "ok"
                /\ call'.op = "mark_as_notified"
                /\ call'.alert_ids = Ids(run.sent) ) ]_vars
    /\ [] ( \A i \in DOMAIN alerts :
               alerts[i].notified = 1 => run.delivered[alerts[i].id] >= 1 )

\* C14 witness: a run completed after marking the record it delivered, while
\* a record of another period stayed pending.
C14_Witness ==
    /\ run.pc = "idle"
    /\ run.end = "completed"
    /\ run.marks = 1
    /\ \E i, j \in DOMAIN alerts :
          /\ alerts[i].id \in Ids(run.sent)
          /\ alerts[i].notified = 1
          /\ alerts[j].detected_month # run.period
          /\ alerts[j].notified = 0

\* C16 as stated: the orchestrator records an article only if it has a DOI and
\* its citation count is available and exceeds the threshold (count > 10).
C16_OnlyAboveThreshold ==
    [][ RowAdded
        => ( /\ LoopIteration
             /\ run.articles[run.idx].doi # None
             /\ run'.total_citations.available
             /\ run'.total_citations.count > threshold ) ]_vars

\* C16 amended: the orchestrator records an article only if it has a DOI and
\* its citation count is available and at least the threshold (count >= 10);
\* the record carries that article and that count; an article whose count is
\* unavailable is skipped.
C16_OnlyAtLeastThreshold ==
    [][ /\ RowAdded
           => ( /\ LoopIteration
                /\ run.articles[run.idx].doi # None
                /\ run'.total_citations.available
                /\ run'.total_citations.count >= threshold
                /\ Len(alerts') = Len(alerts) + 1
                /\ alerts'[Len(alerts')].pmid = run.articles[run.idx].pmid
                /\ alerts'[Len(alerts')].doi = run.articles[run.idx].doi
                /\ alerts'[Len(alerts')].citation_increase
                      = run'.total_citations.count )
        /\ (LoopIteration /\ ~run'.total_citations.available)
           => alerts' = alerts ]_vars

\* C16 witness: the loop has just recorded an article with exactly 10
\* citations.
C16_Witness ==
    /\ run.pc \in {"loop", "pending"}
    /\ run.total_citations = [available |-> TRUE, count |-> threshold]
    /\ Completed("insert_alert")
    /\ ret.value = TRUE
    /\ call.citation_increase = threshold
    /\ alerts[Len(alerts)].citation_increase = threshold

\* the records of the run's period that were pending when the run started
Leftovers ==
    { i \in DOMAIN run.atStart :
        /\ run.atStart[i].detected_month = run.period
        /\ run.atStart[i].notified = 0 }

\* C19 as stated: a later run of the same period that does not abort gets
\* every record left pending by earlier runs from get_pending_alerts.
C19_LaterRunListsLeftovers ==
    (run.pc = "idle" /\ run.end \in {"no_pmids", "no_pending", "send_failed", "completed"})
    => \A i \in Leftovers : run.atStart[i].id \in Ids(run.pending)

\* C19 amended: a run that aborts or whose delivery fails leaves the ledger
\* as it is, inserted rows and notified rows included; a later run of the same
\* period that reaches get_pending_alerts gets every record left pending, and
\* the digest it passes to the delivery is that listing.
C19_NoRollback ==
    /\ [][ ( /\ run.pc # "idle"
             /\ run'.pc = "idle"
             /\ run'.end \in {"aborted", "send_failed"} )
           => ( /\ alerts' = alerts
                /\ schema' = schema
                /\ sqlite_sequence' = sqlite_sequence ) ]_vars
    /\ [] ( run.pc \in {"summarize", "send", "mark"}
            => \A i \in Leftovers : run.atStart[i].id \in Ids(run.pending) )
    /\ [] ( run.sends >= 1 => run.sent = run.pending )

\* C19 witness: the second run is about to deliver a digest holding a record
\* that an earlier run inserted and left pending, next to one it inserted.
C19_Witness ==
    /\ run.runs = 2
    /\ run.pc = "send"
    /\ ~run.dry_run
    /\ \E i \in Leftovers : run.atStart[i].id \in Ids(run.pending)
    /\ \E k \in DOMAIN run.pending : run.pending[k].id > Len(run.atStart)

\* C20 as stated: each ledger record is in at most one successfully delivered
\* digest, whatever runs abort.
C20_DeliveredAtMostOnce ==
    \A i \in ALERT_IDS : run.delivered[i] <= 1

\* C20 amended: a delivered digest holds pending records only, so a record
\* marked notified is never delivered again; a record is delivered once more
\* only for each run that aborted after delivering it and before
\* mark_as_notified had marked it.
C20_DeliveredOncePerMark ==
    /\ [] ( \A i \in ALERT_IDS : run.delivered[i] <= 1 + run.unmarked[i] )
    /\ [][ (run'.sends = run.sends + 1 /\ run'.success = "ok")
           => \A k \in DOMAIN run'.sent :
                 \E i \in DOMAIN alerts :
                     /\ alerts[i].id = run'.sent[k].id
                     /\ alerts[i].notified = 0 ]_vars

\* C20 witness: the second run, of the same period as a record delivered and
\* marked before, completed a delivery of its own without that record.
C20_Witness ==
    /\ run.runs = 2
    /\ run.pc = "idle"
    /\ run.end = "completed"
    /\ run.sends = 1
    /\ \E i \in DOMAIN run.atStart :
          /\ run.atStart[i].notified = 1
          /\ run.atStart[i].detected_month = run.period
          /\ run.delivered[run.atStart[i].id] = 1

(***************************************************************************)
(* Properties of summarize_abstract, under SpecSummarize.                  *)
(***************************************************************************)
\* C17: summarize_abstract makes at most MAX_RETRIES provider calls, returns
\* the summary of the first successful call, returns a placeholder when every
\* attempt failed or none was made, and always comes to its return.
C17_BoundedRetries ==
    /\ [] ( /\ gem.calls <= MAX_RETRIES
            /\ gem.calls = Len(gem.outcomes) )
    /\ [] ( gem.pc = "done"
            => IF \E k \in DOMAIN gem.outcomes : gem.outcomes[k].ok
                 THEN /\ gem.outcomes[gem.calls].ok
                      /\ \A k \in 1..(gem.calls - 1) : ~gem.outcomes[k].ok
                      /\ gem.summary = gem.outcomes[gem.calls].text
                 ELSE /\ gem.summary \in {NoAbstractText, NoKeyText, FailedText}
                      /\ gem.calls \in {0, MAX_RETRIES}
                      /\ gem.calls = MAX_RETRIES <=> gem.summary = FailedText )
    /\ (gem.pc = "attempt" ~> gem.pc = "done")

\* C17 witness: a call returned the summary of its third provider call after
\* two failures.
C17_Witness ==
    /\ gem.pc = "done"
    /\ gem.calls = MAX_RETRIES
    /\ ~gem.outcomes[1].ok
    /\ ~gem.outcomes[2].ok
    /\ gem.outcomes[3].ok
    /\ gem.summary = gem.outcomes[3].text

\* C18 as stated: for the same hint or fallback the wait before attempt k+1
\* is twice the wait before attempt k.
C18_WaitDoubles ==
    \A k \in 1..(Len(gem.waits) - 1) :
        ( /\ gem.waits[k].has_hint = gem.waits[k + 1].has_hint
          /\ gem.waits[k].hint = gem.waits[k + 1].hint )
        => gem.waits[k + 1].wait = 2 * gem.waits[k].wait

\* C18 amended: the wait after failed attempt k is the hint of the error
\* message plus 5 seconds when there is one, else RETRY_WAIT_SEC, whatever k
\* is; there is a wait after every failed attempt but the last.
C18_WaitFromHintOrFallback ==
    /\ Len(gem.waits) <= MAX_RETRIES - 1
    /\ \A k \in DOMAIN gem.waits :
          /\ gem.waits[k].attempt = k
          /\ ~gem.outcomes[k].ok
          /\ gem.waits[k].has_hint = gem.outcomes[k].has_hint
          /\ gem.waits[k].wait = IF gem.outcomes[k].has_hint
                                   THEN gem.outcomes[k].hint + 5
                                   ELSE RETRY_WAIT_SEC
    /\ \A k \in DOMAIN gem.outcomes :
          (~gem.outcomes[k].ok /\ k < MAX_RETRIES) => k \in DOMAIN gem.waits

\* C18 witness: two failures without a hint were each followed by the same
\* fallback wait, and a failure with a hint by the hint plus 5.
C18_Witness ==
    \/ /\ Len(gem.waits) = 2
       /\ gem.waits[1].wait = RETRY_WAIT_SEC
       /\ gem.waits[2].wait = RETRY_WAIT_SEC
    \/ /\ Len(gem.waits) = 2
       /\ gem.waits[1].has_hint
       /\ gem.waits[2].has_hint
       /\ gem.waits[1].wait = gem.waits[2].wait
       /\ gem.waits[2].wait = gem.waits[2].hint + 5

=============================================================================
